---- MODULE Spec2Model ----
(***************************************************************************)
(* Model of easy-httpserver-mock (src/main.go): a gin HTTP server whose    *)
(* routes are built once from ./config.yaml, plus an fsnotify goroutine    *)
(* that re-reads ./config.yaml into the shared Config on every Write       *)
(* event.                                                                  *)
(***************************************************************************)
EXTENDS Integers, Sequences, FiniteSets, TLC

VARIABLES
    yaml,       \* content of ./config.yaml on disk
    files,      \* content of each response file on disk
    mainPc,     \* position of main()
    config,     \* the Config value main's `config` pointer refers to
    routes,     \* routes registered in the gin engine r
    watched,    \* paths the fsnotify watcher is subscribed to
    events,     \* watcher.Events, oldest first
    wpc,        \* position of the watcher goroutine
    newConfig,  \* the goroutine's local newConfig
    configLock, \* TRUE while configLock is held
    resp,       \* the response to the most recent request
    log         \* messages written through package log

vars == <<yaml, files, mainPc, config, routes, watched, events, wpc,
          newConfig, configLock, resp, log>>

-----------------------------------------------------------------------------
(* Bounds of the model *)

\* capacity of the pending-event queue
MaxEvents == 2

-----------------------------------------------------------------------------
(* The world outside the program: files and their contents *)

ConfigFile == "./config.yaml"

ResponseFiles == {"ping.json", "pong.json"}

\* the response file that is edited while the server runs
Edited == {"ping.json"}

NoFile == "<absent>"

Bodies == {"{\"ok\":true}", "{\"ok\":false}"}

PongBody == "{\"pong\":1}"

Endpoint(p, m, f) == [path |-> p, method |-> m, responseFile |-> f]

Service(n, b, es) == [name |-> n, basePath |-> b, endpoints |-> es]

\* one GET route
DeclPing ==
    << Service("svc", "/api", << Endpoint("/ping", "GET", "ping.json") >>) >>

\* GET /api/ping retargeted to pong.json, POST /api/ping added, and an
\* endpoint with an unsupported verb declared between them
DeclEdited ==
    << Service("svc", "/api", << Endpoint("/ping", "GET", "pong.json"),
                                 Endpoint("/pong", "PUT", "pong.json"),
                                 Endpoint("/ping", "POST", "ping.json") >>) >>

\* two services whose basePath+path collide on GET /api/ping
DeclDup ==
    << Service("a", "/api", << Endpoint("/ping", "GET", "ping.json") >>),
       Service("b", "", << Endpoint("/api/ping", "GET", "pong.json") >>) >>

Declarations == {DeclPing, DeclEdited, DeclDup}

Readable(d) == [kind |-> "ok", decl |-> d]

Malformed == [kind |-> "malformed", decl |-> << >>]

Missing == [kind |-> "missing", decl |-> << >>]

YamlContents == {Readable(d) : d \in Declarations} \cup {Malformed, Missing}

Requests ==
    { <<"GET", "/api/ping">>, <<"POST", "/api/ping">>, <<"PUT", "/api/pong">>,
      <<"GET", "/api/missing">>, <<"GET", "/api/ping/">> }

NoResponse == [method |-> "", path |-> "", status |-> 0, contentType |-> "", body |-> ""]

-----------------------------------------------------------------------------
(* Pure functions of the program *)

loadConfig(y) ==
    IF y.kind = "ok" THEN [err |-> FALSE, config |-> y.decl]
                     ELSE [err |-> TRUE, config |-> << >>]

\* readJSONFile with the error of ioutil.ReadFile dropped
readJSONFile_ErrorDropped(fs, filePath) ==
    [err |-> FALSE, data |-> IF fs[filePath] = NoFile THEN "" ELSE fs[filePath]]

readJSONFile(fs, filePath) ==
    IF fs[filePath] = NoFile THEN [err |-> TRUE, data |-> ""]
                             ELSE [err |-> FALSE, data |-> fs[filePath]]

RECURSIVE ServiceRoutes_SharedLoopVar(_, _)
\* ServiceRoutes with the closures sharing the loop variable: every handler
\* of the service reads the responseFile of its last endpoint
ServiceRoutes_SharedLoopVar(service, i) ==
    IF i > Len(service.endpoints) THEN << >>
    ELSE << [method |-> service.endpoints[i].method,
             fullPath |-> service.basePath \o service.endpoints[i].path,
             responseFile |->
                 service.endpoints[Len(service.endpoints)].responseFile] >>
         \o ServiceRoutes_SharedLoopVar(service, i + 1)

RECURSIVE ServiceRoutes(_, _)
\* the endpoints of one service in declared order, with fullPath computed
ServiceRoutes(service, i) ==
    IF i > Len(service.endpoints) THEN << >>
    ELSE << [method |-> service.endpoints[i].method,
             fullPath |-> service.basePath \o service.endpoints[i].path,
             responseFile |-> service.endpoints[i].responseFile] >>
         \o ServiceRoutes(service, i + 1)

RECURSIVE DeclaredRoutes(_, _)
\* every endpoint of the declaration, services then endpoints in order
DeclaredRoutes(cfg, s) ==
    IF s > Len(cfg) THEN << >>
    ELSE ServiceRoutes(cfg[s], 1) \o DeclaredRoutes(cfg, s + 1)

Supported(method) == method \in {"GET", "POST"}

\* Handles with every verb registered in one tree
Handles_AnyMethod(rs, method, fullPath) ==
    {r \in rs : r.fullPath = fullPath}

Handles(rs, method, fullPath) ==
    {r \in rs : r.method = method /\ r.fullPath = fullPath}

RECURSIVE Register(_, _, _)
\* r.GET / r.POST for each endpoint in turn; gin panics when a handler is
\* already registered for the method and path
Register(decl, i, eng) ==
    IF i > Len(decl) \/ eng.panicked THEN eng
    ELSE IF ~Supported(decl[i].method) THEN Register(decl, i + 1, eng)
    ELSE IF Handles(eng.routes, decl[i].method, decl[i].fullPath) # {}
         THEN [eng EXCEPT !.panicked = TRUE]
    ELSE Register(decl, i + 1, [eng EXCEPT !.routes = @ \cup {decl[i]}])

setupRouter(cfg) ==
    Register(DeclaredRoutes(cfg, 1), 1, [panicked |-> FALSE, routes |-> {}])

RECURSIVE ReferencedFiles(_, _)
\* the responseFile of every endpoint, in declaration order
ReferencedFiles(decl, i) ==
    IF i > Len(decl) THEN << >>
    ELSE << decl[i].responseFile >> \o ReferencedFiles(decl, i + 1)

ErrorBody(filePath) == "{\"error\":\"open " \o filePath \o ": no such file or directory\"}"

NotFound(method, path) ==
    [method |-> method, path |-> path, status |-> 404,
     contentType |-> "text/plain", body |-> "404 page not found"]

\* the registered paths of `method` that differ from `path` by a trailing
\* slash only: the engine of gin.Default() redirects to them
SlashTwins(rs, method, path) ==
    {r.fullPath : r \in {x \in rs : /\ x.method = method
                                     /\ \/ x.fullPath \o "/" = path
                                        \/ path \o "/" = x.fullPath}}

Redirect(method, path, target) ==
    [method |-> method, path |-> path,
     status |-> IF method = "GET" THEN 301 ELSE 307,
     contentType |-> "text/html", body |-> target]

\* the handler closure registered for one endpoint, lines 70-77 and 79-86
Handler(fs, method, path, responseFile) ==
    LET read == readJSONFile(fs, responseFile) IN
    IF read.err
    THEN [method |-> method, path |-> path, status |-> 500,
          contentType |-> "application/json", body |-> ErrorBody(responseFile)]
    ELSE [method |-> method, path |-> path, status |-> 200,
          contentType |-> "application/json", body |-> read.data]

\* what the engine answers to one request
Dispatch(rs, fs, method, path) ==
    LET hit == Handles(rs, method, path)
        twins == SlashTwins(rs, method, path) IN
    IF hit # {}
    THEN Handler(fs, method, path, (CHOOSE r \in hit : TRUE).responseFile)
    ELSE IF twins # {}
    THEN Redirect(method, path, CHOOSE t \in twins : TRUE)
    ELSE NotFound(method, path)

-----------------------------------------------------------------------------
(* Initial state: the process has not run yet; the disk holds anything *)

Init ==
    /\ yaml \in YamlContents
    /\ files \in {f \in [ResponseFiles -> Bodies \cup {NoFile, PongBody}] :
                    /\ f["pong.json"] = PongBody
                    /\ f["ping.json"] # PongBody}
    /\ mainPc = "start"
    /\ config = << >>
    /\ routes = {}
    /\ watched = {}
    /\ events = << >>
    /\ wpc = "idle"
    /\ newConfig = << >>
    /\ configLock = FALSE
    /\ resp = NoResponse
    /\ log = {}

-----------------------------------------------------------------------------
(* main() *)

\* MainLoad with the load error logged by log.Printf and main going on
MainLoad_LogAndGoOn ==
    /\ mainPc = "start"
    /\ LET l == loadConfig(yaml)
           eng == setupRouter(l.config) IN
       /\ mainPc' = "loaded"
       /\ log' = IF l.err THEN log \cup {"Failed to load config"} ELSE log
       /\ config' = l.config
       /\ routes' = eng.routes
    /\ UNCHANGED <<yaml, files, watched, events, wpc, newConfig,
                   configLock, resp>>

\* MainLoad with the response files checked at startup: a declaration that
\* references a file that does not exist is refused
MainLoad_RequireFiles ==
    /\ mainPc = "start"
    /\ LET l == loadConfig(yaml)
           eng == setupRouter(l.config) IN
       IF l.err \/ \E r \in eng.routes : files[r.responseFile] = NoFile
       THEN /\ mainPc' = "fatal"
            /\ log' = log \cup {"Failed to load config"}
            /\ UNCHANGED <<config, routes>>
       ELSE IF eng.panicked
       THEN /\ mainPc' = "panicked"
            /\ config' = l.config
            /\ UNCHANGED <<routes, log>>
       ELSE /\ mainPc' = "loaded"
            /\ config' = l.config
            /\ routes' = eng.routes
            /\ UNCHANGED log
    /\ UNCHANGED <<yaml, files, watched, events, wpc, newConfig,
                   configLock, resp>>

\* lines 95-101: the first load, fatal on error, then the routes are built
MainLoad ==
    /\ mainPc = "start"
    /\ LET l == loadConfig(yaml)
           eng == setupRouter(l.config) IN
       IF l.err
       THEN /\ mainPc' = "fatal"
            /\ log' = log \cup {"Failed to load config"}
            /\ UNCHANGED <<config, routes>>
       ELSE IF eng.panicked
       THEN /\ mainPc' = "panicked"
            /\ config' = l.config
            /\ UNCHANGED <<routes, log>>
       ELSE /\ mainPc' = "loaded"
            /\ config' = l.config
            /\ routes' = eng.routes
            /\ UNCHANGED log
    /\ UNCHANGED <<yaml, files, watched, events, wpc, newConfig,
                   configLock, resp>>

\* the paths watcher.Add accepts: a path that does not exist is refused
Addable(paths) ==
    {f \in paths : IF f = ConfigFile THEN yaml.kind # "missing"
                                     ELSE files[f] # NoFile}

WatchTargets(cfg) ==
    LET refs == ReferencedFiles(DeclaredRoutes(cfg, 1), 1) IN
    {ConfigFile} \cup {refs[i] : i \in 1..Len(refs)}

WatchFailures(cfg) ==
    LET failed == WatchTargets(cfg) \ Addable(WatchTargets(cfg)) IN
    (IF ConfigFile \in failed THEN {"Failed to watch config file"} ELSE {})
    \cup (IF failed \ {ConfigFile} # {} THEN {"Failed to watch response file"} ELSE {})

\* lines 104-160: the watcher is created and subscribed, the goroutine is
\* started and the engine starts serving
MainWatch ==
    /\ mainPc = "loaded"
    /\ \E created \in BOOLEAN :
        IF ~created
        THEN /\ mainPc' = "fatal"
             /\ log' = log \cup {"Failed to create watcher"}
             /\ UNCHANGED <<watched, wpc>>
        ELSE /\ mainPc' = "serving"
             /\ watched' = Addable(WatchTargets(config))
             /\ log' = log \cup WatchFailures(config)
             /\ wpc' = "select"
    /\ UNCHANGED <<yaml, files, config, routes, events, newConfig,
                   configLock, resp>>

\* lines 160 and 108: r.Run returns, main returns and the deferred
\* watcher.Close() closes both channels of the watcher
MainExit ==
    /\ mainPc = "serving"
    /\ mainPc' = "exited"
    /\ watched' = {}
    /\ events' = << >>
    /\ UNCHANGED <<yaml, files, config, routes, wpc, newConfig, configLock,
                   resp, log>>

-----------------------------------------------------------------------------
(* The watcher goroutine, lines 127-157 *)

IsWrite(ev) == "Write" \in ev.op

\* WatcherRecv without the test of event.Op: every event starts a reload
WatcherRecv_AnyOp ==
    /\ wpc = "select"
    /\ events # << >>
    /\ events' = Tail(events)
    /\ log' = log \cup {"File modified"}
    /\ wpc' = "lock"
    /\ UNCHANGED <<yaml, files, mainPc, config, routes, watched, newConfig,
                   configLock, resp>>

\* lines 130-135: one event is received
WatcherRecv ==
    /\ wpc = "select"
    /\ events # << >>
    /\ events' = Tail(events)
    /\ IF IsWrite(Head(events))
       THEN /\ log' = log \cup {"File modified"}
            /\ wpc' = "lock"
       ELSE UNCHANGED <<log, wpc>>
    /\ UNCHANGED <<yaml, files, mainPc, config, routes, watched, newConfig,
                   configLock, resp>>

\* lines 131-133 and 151-153: a closed channel ends the goroutine
WatcherReturn ==
    /\ wpc = "select"
    /\ mainPc = "exited"
    /\ wpc' = "done"
    /\ UNCHANGED <<yaml, files, mainPc, config, routes, watched, events,
                   newConfig, configLock, resp, log>>

\* WatcherError with the goroutine returning after the log line
WatcherError_Return ==
    /\ wpc = "select"
    /\ mainPc = "serving"
    /\ log' = log \cup {"Watcher error"}
    /\ wpc' = "done"
    /\ UNCHANGED <<yaml, files, mainPc, config, routes, watched, events,
                   newConfig, configLock, resp>>

\* lines 150-154: an error is received from watcher.Errors and logged
WatcherError ==
    /\ wpc = "select"
    /\ mainPc = "serving"
    /\ log' = log \cup {"Watcher error"}
    /\ UNCHANGED <<yaml, files, mainPc, config, routes, watched, events, wpc,
                   newConfig, configLock, resp>>

\* line 138
WatcherLock ==
    /\ wpc = "lock"
    /\ ~configLock
    /\ configLock' = TRUE
    /\ wpc' = "locked"
    /\ UNCHANGED <<yaml, files, mainPc, config, routes, watched, events,
                   newConfig, resp, log>>

\* WatcherLoad with `return` in place of `continue` on the error branch
WatcherLoad_ReturnOnError ==
    /\ wpc = "locked"
    /\ LET l == loadConfig(yaml) IN
       IF l.err
       THEN /\ log' = log \cup {"Failed to reload config"}
            /\ configLock' = FALSE
            /\ wpc' = "done"
            /\ UNCHANGED newConfig
       ELSE /\ newConfig' = l.config
            /\ wpc' = "swap"
            /\ UNCHANGED <<log, configLock>>
    /\ UNCHANGED <<yaml, files, mainPc, config, routes, watched, events,
                   resp>>

\* WatcherLoad without configLock.Unlock() on the error branch
WatcherLoad_NoUnlockOnError ==
    /\ wpc = "locked"
    /\ LET l == loadConfig(yaml) IN
       IF l.err
       THEN /\ log' = log \cup {"Failed to reload config"}
            /\ wpc' = "select"
            /\ UNCHANGED <<newConfig, configLock>>
       ELSE /\ newConfig' = l.config
            /\ wpc' = "swap"
            /\ UNCHANGED <<log, configLock>>
    /\ UNCHANGED <<yaml, files, mainPc, config, routes, watched, events,
                   resp>>

\* WatcherLoad with the swap done before the error is checked
WatcherLoad_SwapBeforeCheck ==
    /\ wpc = "locked"
    /\ LET l == loadConfig(yaml) IN
       IF l.err
       THEN /\ log' = log \cup {"Failed to reload config"}
            /\ config' = l.config
            /\ configLock' = FALSE
            /\ wpc' = "select"
            /\ UNCHANGED newConfig
       ELSE /\ newConfig' = l.config
            /\ wpc' = "swap"
            /\ UNCHANGED <<log, configLock, config>>
    /\ UNCHANGED <<yaml, files, mainPc, routes, watched, events, resp>>

\* lines 139-144
WatcherLoad ==
    /\ wpc = "locked"
    /\ LET l == loadConfig(yaml) IN
       IF l.err
       THEN /\ log' = log \cup {"Failed to reload config"}
            /\ configLock' = FALSE
            /\ wpc' = "select"
            /\ UNCHANGED newConfig
       ELSE /\ newConfig' = l.config
            /\ wpc' = "swap"
            /\ UNCHANGED <<log, configLock>>
    /\ UNCHANGED <<yaml, files, mainPc, config, routes, watched, events,
                   resp>>

\* lines 147-148
WatcherSwap ==
    /\ wpc = "swap"
    /\ config' = newConfig
    /\ newConfig' = << >>
    /\ configLock' = FALSE
    /\ wpc' = "select"
    /\ UNCHANGED <<yaml, files, mainPc, routes, watched, events, resp, log>>

-----------------------------------------------------------------------------
(* One HTTP request, served by the engine started at line 160 *)

Request ==
    /\ mainPc = "serving"
    /\ \E rq \in Requests :
        resp' = Dispatch(routes, files, rq[1], rq[2])
    /\ UNCHANGED <<yaml, files, mainPc, config, routes, watched, events, wpc,
                   newConfig, configLock, log>>

-----------------------------------------------------------------------------
(* The file system and the notifications fsnotify derives from it *)

\* the event queue after fsnotify has seen `op` on `name`
Notify(name, op) ==
    IF name \in watched THEN Append(events, [name |-> name, op |-> {op}])
                        ELSE events

Room(name) == name \in watched => Len(events) < MaxEvents

\* the subscriptions after `name` was deleted: the kernel drops the watch
Unwatch(name) == watched \ {name}

WriteYaml ==
    /\ \E c \in YamlContents \ {Missing} :
        /\ yaml' = c
        /\ Room(ConfigFile)
        /\ events' = IF yaml = Missing THEN events ELSE Notify(ConfigFile, "Write")
    /\ UNCHANGED <<files, mainPc, config, routes, watched, wpc,
                   newConfig, configLock, resp, log>>

RemoveYaml ==
    /\ yaml # Missing
    /\ yaml' = Missing
    /\ Room(ConfigFile)
    /\ events' = Notify(ConfigFile, "Remove")
    /\ watched' = Unwatch(ConfigFile)
    /\ UNCHANGED <<files, mainPc, config, routes, wpc, newConfig,
                   configLock, resp, log>>

WriteResponse ==
    /\ \E f \in Edited, b \in Bodies :
        /\ files' = [files EXCEPT ![f] = b]
        /\ Room(f)
        /\ events' = IF files[f] = NoFile THEN events ELSE Notify(f, "Write")
    /\ UNCHANGED <<yaml, mainPc, config, routes, watched, wpc,
                   newConfig, configLock, resp, log>>

RemoveResponse ==
    /\ \E f \in Edited :
        /\ files[f] # NoFile
        /\ files' = [files EXCEPT ![f] = NoFile]
        /\ Room(f)
        /\ events' = Notify(f, "Remove")
        /\ watched' = Unwatch(f)
    /\ UNCHANGED <<yaml, mainPc, config, routes, wpc, newConfig,
                   configLock, resp, log>>

\* a change of mode or owner of a watched file
Chmod ==
    /\ \E f \in watched :
        /\ Room(f)
        /\ events' = Notify(f, "Chmod")
    /\ UNCHANGED <<yaml, files, mainPc, config, routes, watched, wpc,
                   newConfig, configLock, resp, log>>

-----------------------------------------------------------------------------
(* Spec: the process from startup on, its reloads and the requests it serves *)

Next ==
    \/ MainLoad
    \/ MainWatch
    \/ WatcherRecv
    \/ WatcherLock
    \/ WatcherLoad
    \/ WatcherSwap
    \/ Request
    \/ WriteYaml
    \/ RemoveYaml
    \/ WriteResponse
    \/ RemoveResponse

Spec == Init /\ [][Next]_vars

(* SpecWatcher: the whole life of the watcher goroutine: every kind of event, *)
(* errors of the watcher and the shutdown of main; requests, which touch     *)
(* nothing the goroutine reads, are left out                                 *)

NextWatcher ==
    \/ MainLoad
    \/ MainWatch
    \/ MainExit
    \/ WatcherRecv
    \/ WatcherReturn
    \/ WatcherError
    \/ WatcherLock
    \/ WatcherLoad
    \/ WatcherSwap
    \/ WriteYaml
    \/ RemoveYaml
    \/ WriteResponse
    \/ RemoveResponse
    \/ Chmod

SpecWatcher == Init /\ [][NextWatcher]_vars

-----------------------------------------------------------------------------
(* Properties *)

\* the request a response answers
Asked(r) == <<r.method, r.path>>

\* the response a request gets when it is dispatched against declaration cfg
ServedBy(cfg, rq) == Dispatch(setupRouter(cfg).routes, files, rq[1], rq[2])

Buildable(cfg) == ~setupRouter(cfg).panicked

\* a reload that ended at the error branch of lines 140-144
FailedReloadStep == wpc = "locked" /\ wpc' = "select"

\* a reload that ended with the swap of lines 147-148
PublishStep == wpc = "swap" /\ wpc' = "select"

\* C1: every request is dispatched against the declaration published last:
\* the response is the one the routes of the current config give.
C1_ReloadChangesWhatIsServed ==
    [][(Request /\ Buildable(config))
         => resp' = ServedBy(config, Asked(resp'))]_vars

\* C2: a reload whose loadConfig fails leaves config (and the routes) as they
\* were before the attempt.
C2_FailedReloadKeepsConfig ==
    [][FailedReloadStep => (config' = config /\ routes' = routes)]_vars

\* a reload has failed on an unreadable or malformed file while a good
\* declaration stays published
C2_Witness ==
    /\ "Failed to reload config" \in log
    /\ wpc = "select"
    /\ yaml.kind # "ok"
    /\ config \in Declarations

\* C3: a request served while a reload is between load and swap sees the
\* complete old declaration (config) or the complete new one (newConfig).
C3_ReadsSeeOldOrNew ==
    [][(Request /\ wpc = "swap" /\ Buildable(config) /\ Buildable(newConfig))
         => resp' \in {ServedBy(config, Asked(resp')),
                       ServedBy(newConfig, Asked(resp'))}]_vars

\* C4: after a successful reload the watched paths are the declaration file
\* plus every responseFile the published declaration references (stated for
\* the case that all of them exist, so that each can be subscribed).
C4_WatchSetFollowsReload ==
    [][(PublishStep /\ Addable(WatchTargets(config')) = WatchTargets(config'))
         => watched' = WatchTargets(config')]_vars

\* the (method, fullPath, responseFile) of every endpoint of cfg, read off the
\* declaration itself
Declared(cfg) ==
    UNION {{[method |-> cfg[s].endpoints[i].method,
             fullPath |-> cfg[s].basePath \o cfg[s].endpoints[i].path,
             responseFile |-> cfg[s].endpoints[i].responseFile] :
                i \in 1..Len(cfg[s].endpoints)} : s \in 1..Len(cfg)}

Key(r) == <<r.method, r.fullPath>>

\* the keys two endpoints of cfg declare with different response files
DuplicateKeys(cfg) ==
    {Key(x) : x \in {e \in Declared(cfg) :
        /\ Supported(e.method)
        /\ \E y \in Declared(cfg) :
             Key(y) = Key(e) /\ y.responseFile # e.responseFile}}

\* the endpoint of cfg declared last for key k
LastDeclared(cfg, k) ==
    LET d == DeclaredRoutes(cfg, 1)
        at == {i \in 1..Len(d) : Key(d[i]) = k}
    IN  d[CHOOSE i \in at : \A j \in at : j <= i]

\* main has got past the first load with a declaration read from disk
FirstLoadStep == mainPc = "start" /\ mainPc' # "start" /\ ~loadConfig(yaml).err

\* C5: a declaration with two endpoints on one method and path but different
\* response files builds, and the key is served by the endpoint declared last.
C5_LastDeclaredWins ==
    [][(FirstLoadStep /\ DuplicateKeys(loadConfig(yaml).config) # {})
         => /\ mainPc' = "loaded"
            /\ \A k \in DuplicateKeys(config') :
                 Handles(routes', k[1], k[2]) = {LastDeclared(config', k)}]_vars

\* C6: every GET or POST endpoint of the declaration the routes are built from
\* is registered with its own responseFile, the routes stay as built, and a
\* request to a route whose file is readable gets 200 with the bytes the file
\* holds when the request is served.
C6_ReadThroughDispatch ==
    [][/\ (mainPc = "start" /\ mainPc' = "loaded")
            => \A e \in Declared(config') : Supported(e.method) => e \in routes'
       /\ mainPc \in {"loaded", "serving"} => routes' = routes
       /\ Request
            => \A r \in routes :
                 (Asked(resp') = Key(r) /\ files[r.responseFile] # NoFile)
                   => /\ resp'.status = 200
                      /\ resp'.contentType = "application/json"
                      /\ resp'.body = files[r.responseFile]]_vars

\* a 200 response carries the bytes of a write the watcher has not processed
C6_Witness ==
    /\ resp.status = 200
    /\ resp.body \in Bodies
    /\ resp.body = files["ping.json"]
    /\ "File modified" \notin log
    /\ \E i \in 1..Len(events) : events[i] = [name |-> "ping.json", op |-> {"Write"}]

\* C7: a request to a route whose response file cannot be read gets 500 with
\* the JSON error body; main keeps serving, routes and config are untouched,
\* and the same request gets 200 once the file is readable again.
C7_UnreadableFileIs500 ==
    [][Request
         => /\ mainPc' = "serving" /\ routes' = routes /\ config' = config
            /\ \A r \in routes :
                 Asked(resp') = Key(r)
                   => /\ files[r.responseFile] = NoFile
                          => /\ resp'.status = 500
                             /\ resp'.contentType = "application/json"
                             /\ resp'.body = ErrorBody(r.responseFile)
                      /\ (resp.status = 500 /\ Asked(resp) = Asked(resp')
                            /\ files[r.responseFile] # NoFile)
                          => resp'.status = 200]_vars

\* a request got 500 from a dangling route, the route is still registered and
\* its file has become readable again
C7_Witness ==
    /\ mainPc = "serving"
    /\ resp.status = 500
    /\ \E r \in routes : Asked(resp) = Key(r) /\ files[r.responseFile] # NoFile

\* a route registered for the request's method whose path differs from the
\* request's by a trailing slash only
HasSlashTwin(rs, rq) ==
    \E r \in rs : /\ r.method = rq[1]
                  /\ r.fullPath \o "/" = rq[2] \/ rq[2] \o "/" = r.fullPath

\* C8 as stated: a request runs a handler only when a route has exactly its
\* method and path, and any other request gets NotFound.
C8_UnmatchedIsNotFound ==
    [][Request
         => IF \E r \in routes : Key(r) = Asked(resp')
            THEN resp'.status \in {200, 500}
            ELSE resp'.status = 404]_vars

\* C8 amended: the routes are exactly the GET and POST endpoints declared; a
\* request runs a handler only when a route has exactly its method and path;
\* any other request gets NotFound, except that a path differing by a trailing
\* slash from a route of the same method is redirected to that route.
C8_MatchIsExact ==
    [][/\ (mainPc = "start" /\ mainPc' = "loaded")
            => routes' = {e \in Declared(config') : Supported(e.method)}
       /\ Request
            => IF \E r \in routes : Key(r) = Asked(resp')
               THEN resp'.status \in {200, 500}
               ELSE IF HasSlashTwin(routes, Asked(resp'))
               THEN resp'.status = IF resp'.method = "GET" THEN 301 ELSE 307
               ELSE resp' = NotFound(resp'.method, resp'.path)]_vars

\* a POST to a path that only GET is registered for was answered NotFound
C8_Witness ==
    /\ resp = NotFound("POST", "/api/ping")
    /\ \E r \in routes : Key(r) = <<"GET", "/api/ping">>
    /\ \A r \in routes : r.method = "GET"

\* C9: an endpoint with an unsupported verb does not stop main; it gets no
\* route, a warning is logged for it, and the GET and POST endpoints next to
\* it are registered.
C9_UnsupportedVerbWarned ==
    [][(/\ FirstLoadStep
        /\ DuplicateKeys(loadConfig(yaml).config) = {}
        /\ \E e \in Declared(loadConfig(yaml).config) : ~Supported(e.method))
         => /\ mainPc' = "loaded"
            /\ \A e \in Declared(config') :
                 IF Supported(e.method)
                 THEN e \in routes'
                 ELSE /\ Handles(routes', e.method, e.fullPath) = {}
                      /\ "Unsupported method" \in log']_vars

\* C10: an error of the first load ends main at log.Fatalf: no routes, no
\* watcher, no goroutine and no request served; a load error in the watcher
\* goroutine leaves main serving and the goroutine back at its select.
C10_FirstLoadErrorIsFatal ==
    [][/\ (mainPc = "start" /\ mainPc' # "start" /\ loadConfig(yaml).err)
            => mainPc' = "fatal" /\ "Failed to load config" \in log'
       /\ "Failed to load config" \in log'
            => /\ mainPc' = "fatal"
               /\ routes' = {} /\ watched' = {} /\ events' = << >>
               /\ wpc' = "idle" /\ resp' = NoResponse
       /\ FailedReloadStep => mainPc = "serving" /\ mainPc' = "serving"]_vars

\* main died on a malformed ./config.yaml
C10_Witness ==
    /\ mainPc = "fatal"
    /\ "Failed to load config" \in log
    /\ yaml = Malformed

\* the watcher goroutine takes the event at the head of watcher.Events
RecvStep ==
    /\ wpc = "select" /\ events # << >>
    /\ events' = Tail(events) /\ mainPc' = mainPc

\* C11: change events are debounced per path: an event that has another
\* Write on the same path pending right behind it, from the same burst, is
\* coalesced with it and starts no reload of its own.
C11_BurstReloadsOnce ==
    [][(/\ RecvStep
        /\ IsWrite(Head(events))
        /\ Len(events) >= 2
        /\ events[2] = Head(events))
         => wpc' = "select"]_vars

\* C12: an event for a response file starts no reload and leaves config as it
\* is; only an event for ./config.yaml starts one.
C12_ResponseFileEventNoReload ==
    [][(RecvStep /\ Head(events).name \in ResponseFiles)
         => (wpc' = "select" /\ config' = config)]_vars

\* C13: publishes are ordered and visibility is monotonic: a request is
\* served by the declaration published when it runs, or by the later one a
\* reload is about to publish, never by an older one.
C13_ReadsAreFresh ==
    [][(/\ Request
        /\ Buildable(config)
        /\ wpc = "swap" => Buildable(newConfig))
         => \/ resp' = ServedBy(config, Asked(resp'))
            \/ wpc = "swap" /\ resp' = ServedBy(newConfig, Asked(resp'))]_vars

\* C15: a response file that does not exist when the routes are built stops
\* nothing: every GET and POST endpoint is registered whatever the disk
\* holds, main dies after the first load only if the watcher cannot be
\* created, and a request to a route gets 500 while its file is missing and
\* 200 with the file's bytes once the file is there.
C15_MissingFileAtBuild ==
    [][/\ (FirstLoadStep /\ DuplicateKeys(loadConfig(yaml).config) = {})
            => /\ mainPc' = "loaded"
               /\ \A e \in Declared(config') :
                    Supported(e.method) => e \in routes'
       /\ (mainPc = "loaded" /\ mainPc' = "fatal")
            => "Failed to create watcher" \in log'
       /\ (mainPc = "loaded" /\ mainPc' = "serving") => routes' = routes
       /\ Request
            => \A r \in routes :
                 Asked(resp') = Key(r)
                   => IF files[r.responseFile] = NoFile
                      THEN resp'.status = 500
                      ELSE /\ resp'.status = 200
                           /\ resp'.body = files[r.responseFile]]_vars

\* ping.json was missing when main subscribed the watcher, has appeared
\* since, and its route has served it
C15_Witness ==
    /\ "Failed to watch response file" \in log
    /\ resp.status = 200
    /\ resp.body = files["ping.json"]
    /\ \E r \in routes : Asked(resp) = Key(r) /\ r.responseFile = "ping.json"

\* C16: a failed reload puts the goroutine back at its select with the lock
\* free; every Write event received then starts a reload; a reload that finds
\* a valid ./config.yaml loads exactly that content and publishes it.
C16_ReloadCanBeRetried ==
    [][/\ (wpc = "locked" /\ wpc' # "locked")
            => IF yaml.kind = "ok"
               THEN wpc' = "swap" /\ newConfig' = yaml.decl
               ELSE wpc' = "select" /\ ~configLock' /\ config' = config
       /\ (wpc = "swap" /\ wpc' # "swap")
            => wpc' = "select" /\ ~configLock' /\ config' = newConfig
       /\ (RecvStep /\ IsWrite(Head(events))) => wpc' = "lock"
       /\ wpc' = "lock" => ~configLock']_vars

\* after a failed reload a later one has loaded a valid declaration and is
\* about to publish it
C16_Witness ==
    /\ "Failed to reload config" \in log
    /\ wpc = "swap"
    /\ newConfig # config

\* C17: configLock is held exactly between Lock and the Unlock of the branch
\* taken: it is free whenever the goroutine waits for an event or for the
\* lock itself.
C17_LockReleasedOnEveryPath ==
    /\ wpc \in {"idle", "select", "lock", "done"} => ~configLock
    /\ wpc \in {"locked", "swap"} => configLock

\* the lock is taken again after a failed reload and a published one
C17_Witness ==
    /\ "Failed to reload config" \in log
    /\ config = DeclDup
    /\ wpc = "locked"
    /\ configLock

\* C18: an event whose Op has no Write bit starts no reload: config, the lock
\* and the log stay as they are, whatever file it names.
C18_OnlyWriteReloads ==
    [][(RecvStep /\ ~IsWrite(Head(events)))
         => /\ wpc' = "select"
            /\ config' = config /\ newConfig' = newConfig
            /\ ~configLock'
            /\ log' = log]_vars

\* the Remove event of a watched ./config.yaml has been received and no reload
\* has ever been started
C18_Witness ==
    /\ mainPc = "serving"
    /\ yaml = Missing
    /\ "Failed to watch config file" \notin log
    /\ events = << >>
    /\ wpc = "select"
    /\ "File modified" \notin log

\* C19: the goroutine ends only from its select and only once main has closed
\* the watcher, and then it does nothing else; receiving a watcher error only
\* adds a log line and leaves the goroutine at its select.
C19_EndsOnlyOnClose ==
    [][/\ (wpc # "done" /\ wpc' = "done")
            => wpc = "select" /\ mainPc = "exited"
       /\ (wpc = "select" /\ mainPc = "exited" /\ wpc' # wpc) => wpc' = "done"
       /\ wpc = "done" => wpc' = "done"
       /\ ("Watcher error" \in log' /\ "Watcher error" \notin log)
            => /\ wpc = "select" /\ wpc' = "select"
               /\ config' = config /\ events' = events
               /\ ~configLock' /\ mainPc' = "serving"]_vars

\* the goroutine has logged a watcher error, gone on, and ended once the
\* watcher was closed
C19_Witness ==
    /\ wpc = "done"
    /\ mainPc = "exited"
    /\ "Watcher error" \in log
    /\ "File modified" \in log

====
